---- MODULE Spec2Model ----
(***************************************************************************)
(* Advanced chess training bot: the analysis pipeline of                   *)
(* AdvancedChessEngine (chess_engine.py) and the analysis scheduling of    *)
(* AdvancedChessTrainingBotGUI / AnalysisWorker (chess_gui_advanced.py).   *)
(*                                                                         *)
(* analyze_position_advanced is modelled once, as the steps of one call    *)
(* (enter, book lookup, engine reply, the three trait reads and the        *)
(* selection, the second engine request, return).  The specifications      *)
(* schedule it:                                                            *)
(*   Spec        the GUI session: the GUI thread and one AnalysisWorker    *)
(*               thread running the call against the shared engine object  *)
(*   FairSpec    Spec with the threads and the event loop scheduled fairly *)
(*   SpecEngine  a single-threaded caller of the engine object: analyze    *)
(*               calls, one after the other, and quit                      *)
(*   SpecBoard   the engine object's own board: make_move, reset_board     *)
(***************************************************************************)
EXTENDS Integers, Sequences, FiniteSets, TLC

\* ------------------------------------------------------------------ bounds
MaxPly == 1        \* half-moves played on a board before the model stops pushing
MaxLines == 2      \* lines (info dicts) in a generated engine reply
RDen == 10         \* random.random() is drawn from the grid {0/RDen .. (RDen-1)/RDen}
MaxPick == 4       \* raw integer draws 0..MaxPick-1 behind random.choice

\* ------------------------------------------------------- python-chess board
\* The chess rules are the library's; the model keeps of a chess.Board what the
\* code reads: the legal moves, is_game_over(), fullmove_number and the pieces
\* that detect_game_phase counts.  "m3" captures a pawn, "m4" mates.
NoMove == "None"
Moves == {"m1", "m2", "m3", "m4"}

StartBoard == [ply |-> 0, last |-> NoMove, material |-> 78, pieces |-> 32, over |-> FALSE]
EmptyBoard == [ply |-> 0, last |-> NoMove, material |-> 0, pieces |-> 0, over |-> TRUE]

legal_moves(board) == IF board.over THEN {} ELSE Moves \ {board.last}

is_game_over(board) == board.over

fullmove_number(board) == (board.ply \div 2) + 1

push(board, move) ==
    [ply |-> board.ply + 1,
     last |-> move,
     material |-> IF move = "m3" THEN board.material - 1 ELSE board.material,
     pieces |-> IF move = "m3" THEN board.pieces - 1 ELSE board.pieces,
     over |-> (move = "m4")]

\* list(board.legal_moves): the legal moves in the generator's fixed order
MoveOrder == <<"m1", "m2", "m3", "m4">>

InLegal(board, move) == move \in legal_moves(board)

legal_move_list(board) == SelectSeq(MoveOrder, LAMBDA m : InLegal(board, m))

\* ------------------------------------------------------------- game phase
\* detect_game_phase: material and piece count are the sums of the loop over
\* chess.SQUARES, carried by the board record.
\* the loop of lines 145-156 over the pieces on the board, given as the
\* number of pieces of each type (both colours together)
total_material(census) ==
    census.queen * 9 + census.rook * 5 + (census.bishop + census.knight) * 3 + census.pawn * 1

piece_count(census) ==
    census.queen + census.rook + census.bishop + census.knight + census.pawn + census.king

\* a board with these pieces after ply half-moves
position(census, ply) ==
    [ply |-> ply, last |-> NoMove, material |-> total_material(census),
     pieces |-> piece_count(census), over |-> FALSE]

\* the ENDGAME test ahead of the OPENING test
detect_game_phase_endgame_first(board) ==
    IF board.material <= 20 \/ board.pieces <= 12 THEN "endgame"
    ELSE IF fullmove_number(board) <= 12 /\ board.material >= 60 THEN "opening"
    ELSE "middlegame"

detect_game_phase(board) ==
    IF fullmove_number(board) <= 12 /\ board.material >= 60 THEN "opening"
    ELSE IF board.material <= 20 \/ board.pieces <= 12 THEN "endgame"
    ELSE "middlegame"

\* ------------------------------------------------------------------ scores
\* chess.engine.PovScore: a centipawn or mate value from one colour's point of
\* view.  white() turns it to white's view; score() is None for a mate score.
Cp(v, pov) == [kind |-> "cp", v |-> v, pov |-> pov]
Mate(v, pov) == [kind |-> "mate", v |-> v, pov |-> pov]
NoScore == [kind |-> "None", v |-> 0, pov |-> "white"]

white(score) == IF score.pov = "white" THEN score ELSE [score EXCEPT !.v = -score.v, !.pov = "white"]

\* score.white().score() is not None
has_cp(score) == score.kind = "cp"

white_cp(score) == white(score).v

Abs(x) == IF x < 0 THEN -x ELSE x
Max(a, b) == IF a >= b THEN a ELSE b
Min(a, b) == IF a <= b THEN a ELSE b

\* random.choice(seq) with the raw draw u
choice(seq, u) == seq[(u % Len(seq)) + 1]

\* ------------------------------------------------------------ MoveAnalysis
\* The dataclass MoveAnalysis; accuracy is kept in tenths of a percent
\* (accuracy 95.0 is 950), which is exact for integer centipawn losses.
\* depth, nodes, time and pv are copied from the engine reply and read by no
\* decision of the pipeline.
MoveAnalysis(move, score, rank) ==
    [move |-> move, score |-> score, rank |-> rank,
     accuracy |-> 0, blunder |-> FALSE, mistake |-> FALSE, inaccuracy |-> FALSE]

\* the loop body with three independent ifs in place of the if/elif chain
classify_one_independent(analysis, best_cp) ==
    IF has_cp(analysis.score)
    THEN LET move_cp == white_cp(analysis.score)
             cp_loss == best_cp - move_cp
         IN [analysis EXCEPT
               !.accuracy = Max(0, 1000 - Abs(cp_loss)),
               !.blunder = @ \/ (cp_loss >= 300),
               !.mistake = @ \/ (cp_loss >= 150),
               !.inaccuracy = @ \/ (cp_loss >= 50)]
    ELSE analysis

\* the loop body without the max(0, ...) around the accuracy
classify_one_unclamped(analysis, best_cp) ==
    IF has_cp(analysis.score)
    THEN LET move_cp == white_cp(analysis.score)
             cp_loss == best_cp - move_cp
         IN [analysis EXCEPT
               !.accuracy = 1000 - Abs(cp_loss),
               !.blunder = @ \/ (cp_loss >= 300),
               !.mistake = @ \/ (cp_loss < 300 /\ cp_loss >= 150),
               !.inaccuracy = @ \/ (cp_loss < 150 /\ cp_loss >= 50)]
    ELSE analysis

\* the loop body with the labels decided by abs(cp_loss)
classify_one_abs_labels(analysis, best_cp) ==
    IF has_cp(analysis.score)
    THEN LET move_cp == white_cp(analysis.score)
             cp_loss == best_cp - move_cp
         IN [analysis EXCEPT
               !.accuracy = Max(0, 1000 - Abs(cp_loss)),
               !.blunder = @ \/ (Abs(cp_loss) >= 300),
               !.mistake = @ \/ (Abs(cp_loss) < 300 /\ Abs(cp_loss) >= 150),
               !.inaccuracy = @ \/ (Abs(cp_loss) < 150 /\ Abs(cp_loss) >= 50)]
    ELSE analysis

\* the loop body with the accuracy computed from the signed cp_loss
classify_one_signed(analysis, best_cp) ==
    IF has_cp(analysis.score)
    THEN LET move_cp == white_cp(analysis.score)
             cp_loss == best_cp - move_cp
         IN [analysis EXCEPT
               !.accuracy = Max(0, 1000 - cp_loss),
               !.blunder = @ \/ (cp_loss >= 300),
               !.mistake = @ \/ (cp_loss < 300 /\ cp_loss >= 150),
               !.inaccuracy = @ \/ (cp_loss < 150 /\ cp_loss >= 50)]
    ELSE analysis

\* one analysis of the loop body of _classify_moves; a flag is set, never cleared
\* a mate score compared as a centipawn value of 10000 on the mating side
classify_one_mate_scored(analysis, best_cp) ==
    LET move_cp == IF has_cp(analysis.score) THEN white_cp(analysis.score)
                   ELSE IF (analysis.score.v > 0) = (analysis.score.pov = "white") THEN 10000
                   ELSE -10000
        cp_loss == best_cp - move_cp
    IN IF analysis.score = NoScore THEN analysis
       ELSE [analysis EXCEPT
               !.accuracy = Max(0, 1000 - Abs(cp_loss)),
               !.blunder = @ \/ (cp_loss >= 300),
               !.mistake = @ \/ (cp_loss < 300 /\ cp_loss >= 150),
               !.inaccuracy = @ \/ (cp_loss < 150 /\ cp_loss >= 50)]

\* the thresholds of the cascade taken strictly: > 300, > 150, > 50
classify_one_strict(analysis, best_cp) ==
    IF has_cp(analysis.score)
    THEN LET move_cp == white_cp(analysis.score)
             cp_loss == best_cp - move_cp
         IN [analysis EXCEPT
               !.accuracy = Max(0, 1000 - Abs(cp_loss)),
               !.blunder = @ \/ (cp_loss > 300),
               !.mistake = @ \/ (cp_loss <= 300 /\ cp_loss > 150),
               !.inaccuracy = @ \/ (cp_loss <= 150 /\ cp_loss > 50)]
    ELSE analysis

classify_one(analysis, best_cp) ==
    IF has_cp(analysis.score)
    THEN LET move_cp == white_cp(analysis.score)
             cp_loss == best_cp - move_cp
         IN [analysis EXCEPT
               !.accuracy = Max(0, 1000 - Abs(cp_loss)),
               !.blunder = @ \/ (cp_loss >= 300),
               !.mistake = @ \/ (cp_loss < 300 /\ cp_loss >= 150),
               !.inaccuracy = @ \/ (cp_loss < 150 /\ cp_loss >= 50)]
    ELSE analysis

\* _classify_moves mutates the analyses in place; the operator returns the list
\* as it is after the call.  best_score is NoScore when best_eval is None.
classify_moves(move_analyses, best_score) ==
    IF move_analyses = <<>> \/ best_score = NoScore THEN move_analyses
    ELSE LET best_cp == IF has_cp(best_score) THEN white_cp(best_score) ELSE 0
         IN [i \in 1..Len(move_analyses) |-> classify_one(move_analyses[i], best_cp)]

\* ------------------------------------------------------------ move selector
EloMin == 800
EloMax == 2500

\* (elo - 800) clamped to [0, 1700]: strength_factor is this over 1700
strength_num(elo) == Max(0, Min(EloMax - EloMin, elo - EloMin))

\* percent base of mistake_probability by phase
mistake_base(game_phase) ==
    IF game_phase = "opening" THEN 10
    ELSE IF game_phase = "middlegame" THEN 20
    ELSE 15

\* mistake_probability = mistake_num / (100 * 1700)
mistake_num(elo, game_phase) == mistake_base(game_phase) * ((EloMax - EloMin) - strength_num(elo))

\* random_value = rn / RDen
above_mistake(rn, elo, game_phase) ==
    rn * 100 * (EloMax - EloMin) > mistake_num(elo, game_phase) * RDen

\* the second branch testing random_value > mistake_probability once more,
\* in place of mistake_probability / 2
above_whole_mistake(rn, elo, game_phase) ==
    rn * 100 * (EloMax - EloMin) > mistake_num(elo, game_phase) * RDen

above_half_mistake(rn, elo, game_phase) ==
    2 * rn * 100 * (EloMax - EloMin) > mistake_num(elo, game_phase) * RDen

\* random_value >= 0.3 in place of random_value > 0.3
at_least_03(rn) == 10 * rn >= 3 * RDen

above_03(rn) == 10 * rn > 3 * RDen

is_excellent(m) == m.accuracy >= 950
is_good(m) == 800 <= m.accuracy /\ m.accuracy < 950
is_okay(m) == 600 <= m.accuracy /\ m.accuracy < 800
is_poor(m) == m.accuracy < 600

excellent_moves(move_analyses) == SelectSeq(move_analyses, is_excellent)
good_moves(move_analyses) == SelectSeq(move_analyses, is_good)
okay_moves(move_analyses) == SelectSeq(move_analyses, is_okay)
poor_moves(move_analyses) == SelectSeq(move_analyses, is_poor)

\* a selection that lets the aggression trait decide between the last and
\* the first candidate
selection_by_aggression(move_analyses, elo, board, personality_traits, rn, u) ==
    IF move_analyses = <<>> THEN NoMove
    ELSE IF personality_traits["aggression"] > 70 THEN move_analyses[Len(move_analyses)].move
    ELSE move_analyses[1].move

\* a selection that lets the tactical_awareness trait decide: a bot of low
\* awareness plays the last candidate, any other the first
selection_by_tactical(move_analyses, elo, board, personality_traits, rn, u) ==
    IF move_analyses = <<>> THEN NoMove
    ELSE IF personality_traits["tactical_awareness"] < 30 THEN move_analyses[Len(move_analyses)].move
    ELSE move_analyses[1].move

\* _advanced_move_selection; rn is the random.random() draw, u the draw behind
\* random.choice.  The three traits are read and used by nothing.
advanced_move_selection(move_analyses, elo, board, personality_traits, rn, u) ==
    IF move_analyses = <<>> THEN NoMove
    ELSE LET game_phase == detect_game_phase(board)
             aggression == personality_traits["aggression"]
             positional == personality_traits["positional_play"]
             tactical == personality_traits["tactical_awareness"]
             excellent == excellent_moves(move_analyses)
             good == good_moves(move_analyses)
             okay == okay_moves(move_analyses)
             poor == poor_moves(move_analyses)
         IN IF above_mistake(rn, elo, game_phase)
            THEN IF excellent # <<>> /\ above_03(rn) THEN choice(excellent, u).move
                 ELSE IF good # <<>> THEN choice(good, u).move
                 ELSE IF okay # <<>> THEN choice(okay, u).move
                 ELSE move_analyses[1].move
            ELSE IF okay # <<>> /\ above_half_mistake(rn, elo, game_phase) THEN choice(okay, u).move
                 ELSE IF poor # <<>> THEN choice(poor, u).move
                 ELSE move_analyses[1].move

\* ------------------------------------------------------------ opening book
\* sorted(book_moves, key=weight, reverse=True): Python's sort is stable, also
\* with reverse=True, so entries of equal weight keep their lookup order.
insert_desc(x, sorted) ==
    LET k == Cardinality({i \in 1..Len(sorted) : sorted[i].weight > x.weight})
    IN SubSeq(sorted, 1, k) \o <<x>> \o SubSeq(sorted, k + 1, Len(sorted))

RECURSIVE sorted_desc(_)
sorted_desc(book_moves) ==
    IF book_moves = <<>> THEN <<>>
    ELSE insert_desc(Head(book_moves), sorted_desc(Tail(book_moves)))

\* book_moves[:3], the first three of the lookup without the sort
first_book_moves(book_moves) == SubSeq(book_moves, 1, Min(3, Len(book_moves)))

\* sorted(...)[:3]
best_book_moves(book_moves) ==
    LET s == sorted_desc(book_moves) IN SubSeq(s, 1, Min(3, Len(s)))

\* the ELO branch of the book path: the entry random.choice returns
select_book_move(book_moves, elo, u) ==
    IF elo >= 2000 THEN choice(best_book_moves(book_moves), u).move
    ELSE choice(book_moves, u).move

\* ------------------------------------------------------------------ state
VARIABLES
    engine,              \* AdvancedChessEngine.engine: "open", "None"
    opening_book,        \* AdvancedChessEngine.opening_book: "None", "open", "closed"
    personality_traits,  \* AdvancedChessEngine.personality_traits, in percent
    board,               \* AdvancedChessEngine.board
    move_history,        \* AdvancedChessEngine.move_history
    call,                \* the analyze_position_advanced call in progress: its
                         \* position, arguments and local variables
    make_move_ret,       \* the last make_move call: its number, argument and return
    \* AdvancedChessTrainingBotGUI and its AnalysisWorker
    gui_engine,          \* self.engine of the window: "engine" (the object), "None"
    current_board,       \* self.current_board
    last_analysis,       \* self.last_analysis: a result dict, NoResult for None
    analysis_worker,     \* self.analysis_worker: "None", or the thread's state
                         \* "running" (isRunning()), "finished", "terminated"
    signals,             \* emitted signals queued for the GUI thread
    buttons_enabled,     \* suggest_move_btn and make_bot_move_btn are enabled
    gui_pc,              \* where the GUI thread is: "idle" (in the event loop),
                         \* "hints", "set_personality", "quit_book", "quit_engine", "closed"
    new_traits,          \* set_personality: the (trait, value) items still to write
    suggest_ret,         \* how the last suggest_move call ended
    delivered,           \* outcomes delivered to the window for the current worker
    trainer              \* the OpeningTrainer object: its line, position and statistics

vars == <<engine, opening_book, personality_traits, board, move_history, call, make_move_ret,
          gui_engine, current_board, last_analysis, analysis_worker, signals,
          buttons_enabled, gui_pc, new_traits, suggest_ret, delivered, trainer>>

engine_vars == <<engine, opening_book, personality_traits, board, move_history>>

gui_vars == <<gui_engine, current_board, last_analysis, analysis_worker, signals,
              buttons_enabled, gui_pc, new_traits, suggest_ret, delivered>>

Traits == {"aggression", "positional_play", "tactical_awareness", "endgame_skill", "opening_knowledge"}

DefaultTraits == [t \in Traits |-> 50]

\* ------------------------------------------------------------------ results
\* The dict analyze_position_advanced returns.  A key the dict does not carry
\* is "absent" (source), <<>> (move_analyses), "None" (position_evaluation).
\* raised is the exception that left the call, "None" when it returned.
Result(suggested_move, best_move, evaluation, message, source, move_analyses, position_evaluation) ==
    [raised |-> "None",
     suggested_move |-> suggested_move, best_move |-> best_move,
     evaluation |-> evaluation, message |-> message, source |-> source,
     move_analyses |-> move_analyses, position_evaluation |-> position_evaluation]

Raised(exc) ==
    [raised |-> exc,
     suggested_move |-> NoMove, best_move |-> NoMove,
     evaluation |-> NoScore, message |-> "None", source |-> "absent",
     move_analyses |-> <<>>, position_evaluation |-> "None"]

NoResult == Raised("no call")

\* ---------------------------------------------------- collaborator replies
\* An engine reply is raises (engine.analyse raised) or a list of info dicts;
\* an info is its pv's first move (NoMove: no 'pv' key or an empty pv) and its
\* score (NoScore: no 'score' key).  A book lookup is raises or the list of
\* (move, weight) entries find_all yields.
Reply(infos) == [raises |-> FALSE, infos |-> infos]
ReplyRaises == [raises |-> TRUE, infos |-> <<>>]

Lookup(entries) == [raises |-> FALSE, entries |-> entries]
LookupRaises == [raises |-> TRUE, entries |-> <<>>]

Entry(move, weight) == [move |-> move, weight |-> weight]

has_pv(tagged) == tagged.info.pv # NoMove

\* info.get('score', PovScore(Cp(0), WHITE))
info_score(info) == IF info.score = NoScore THEN Cp(0, "white") ELSE info.score

\* the loop over enumerate(analysis): one MoveAnalysis per info that has a pv,
\* its rank the info's position in the reply
process_analysis(analysis) ==
    LET tagged == [i \in 1..Len(analysis) |-> [info |-> analysis[i], i |-> i]]
        kept == SelectSeq(tagged, has_pv)
    IN [k \in 1..Len(kept) |-> MoveAnalysis(kept[k].info.pv, info_score(kept[k].info), kept[k].i)]

\* ------------------------------------------- analyze_position_advanced call
\* pc: "none" no call; "enter" called, nothing executed; "find_all" waiting
\* for the book; "analyse" the first engine.analyse in flight;
\* "read_aggression", "read_positional", "read_tactical" the three reads of
\* _advanced_move_selection; "comprehensive" about to call
\* comprehensive_position_analysis; "analyse2" its engine.analyse in flight;
\* "done" returned or raised, ret holding the outcome.
\* requests lists the collaborator requests issued so far.
NoCall ==
    [pc |-> "none", board |-> EmptyBoard, elo |-> 0,
     book_moves |-> Lookup(<<>>), analysis |-> Reply(<<>>),
     move_analyses |-> <<>>, best_move |-> NoMove, best_eval |-> NoScore,
     aggression |-> 0, positional |-> 0, tactical |-> 0,
     suggested_move |-> NoMove, requests |-> <<>>, ret |-> NoResult]

NewCall(b, elo) == [NoCall EXCEPT !.pc = "enter", !.board = b, !.elo = elo]

Return(c, result) == [c EXCEPT !.pc = "done", !.ret = result]

\* call_enter with the book consulted in every phase
call_enter_any_phase(c) ==
    IF engine = "None" THEN Return(c, Raised("Engine not initialized"))
    ELSE IF is_game_over(c.board)
    THEN Return(c, Result(NoMove, NoMove, NoScore, "Game is over", "absent", <<>>, "None"))
    ELSE IF opening_book # "None"
    THEN [c EXCEPT !.pc = "find_all", !.requests = Append(@, "find_all")]
    ELSE [c EXCEPT !.pc = "analyse", !.requests = Append(@, "analyse")]

\* lines 405-419 and 446-455: the engine check, the game-over return, the book
\* test, else the first engine request
call_enter(c) ==
    IF engine = "None" THEN Return(c, Raised("Engine not initialized"))
    ELSE IF is_game_over(c.board)
    THEN Return(c, Result(NoMove, NoMove, NoScore, "Game is over", "absent", <<>>, "None"))
    ELSE IF opening_book # "None" /\ detect_game_phase(c.board) = "opening"
    THEN [c EXCEPT !.pc = "find_all", !.requests = Append(@, "find_all")]
    ELSE [c EXCEPT !.pc = "analyse", !.requests = Append(@, "analyse")]

\* call_book with the selection drawn from the legal moves, as the fallback of
\* lines 495-504 does, instead of from the book's entries
call_book_from_legal(c, lookup, u) ==
    LET answer == IF opening_book = "closed" THEN LookupRaises ELSE lookup
    IN IF ~answer.raises /\ answer.entries # <<>>
       THEN LET selected_move == choice(legal_move_list(c.board), u)
            IN Return([c EXCEPT !.book_moves = answer],
                      Result(selected_move, selected_move, Cp(15, "white"),
                             "Opening book move", "opening_book", <<>>, "None"))
       ELSE [c EXCEPT !.book_moves = answer, !.pc = "analyse",
                      !.requests = Append(@, "analyse")]

\* call_book with a raising lookup left to the outer handler of lines 532-540
call_book_uncaught(c, lookup, u) ==
    LET answer == IF opening_book = "closed" THEN LookupRaises ELSE lookup
    IN IF answer.raises
       THEN Return([c EXCEPT !.book_moves = answer],
                   Result(NoMove, NoMove, NoScore, "Advanced analysis failed",
                          "absent", <<>>, "None"))
       ELSE IF answer.entries # <<>>
       THEN LET selected_move == select_book_move(answer.entries, c.elo, u)
            IN Return([c EXCEPT !.book_moves = answer],
                      Result(selected_move, selected_move, Cp(15, "white"),
                             "Opening book move", "opening_book", <<>>, "None"))
       ELSE [c EXCEPT !.book_moves = answer, !.pc = "analyse",
                      !.requests = Append(@, "analyse")]

\* lines 420-444: the lookup's answer; a closed reader raises.  Any exception
\* is swallowed and the call goes on to the engine.
call_book(c, lookup, u) ==
    LET answer == IF opening_book = "closed" THEN LookupRaises ELSE lookup
    IN IF ~answer.raises /\ answer.entries # <<>>
       THEN LET selected_move == select_book_move(answer.entries, c.elo, u)
            IN Return([c EXCEPT !.book_moves = answer],
                      Result(selected_move, selected_move, Cp(15, "white"),
                             "Opening book move", "opening_book", <<>>, "None"))
       ELSE [c EXCEPT !.book_moves = answer, !.pc = "analyse",
                      !.requests = Append(@, "analyse")]

\* lines 450-507: the first engine reply, the candidate list, the fallback to
\* a random legal move, the classification
call_analysed(c, reply, u) ==
    LET c1 == [c EXCEPT !.analysis = reply]
    IN IF reply.raises
       THEN Return(c1, Result(NoMove, NoMove, NoScore, "Advanced analysis failed",
                              "absent", <<>>, "None"))
       ELSE IF reply.infos = <<>>
       THEN Return(c1, Result(NoMove, NoMove, NoScore, "No analysis available",
                              "absent", <<>>, "None"))
       ELSE LET analysis == reply.infos
                move_analyses == process_analysis(analysis)
                first_has_pv == analysis[1].pv # NoMove
                best_move == IF first_has_pv THEN analysis[1].pv ELSE NoMove
                best_eval == IF first_has_pv THEN info_score(analysis[1]) ELSE NoScore
                legal == legal_move_list(c.board)
            IN IF move_analyses = <<>> /\ legal # <<>>
               THEN LET random_move == choice(legal, u)
                    IN Return(c1, Result(random_move, random_move, Cp(0, "white"),
                                         "Fallback to random move", "absent", <<>>, "None"))
               ELSE [c1 EXCEPT !.pc = "read_aggression",
                               !.move_analyses = classify_moves(move_analyses, best_eval),
                               !.best_move = best_move, !.best_eval = best_eval]

\* lines 571-579: self.personality_traits is read three times, each read a
\* step of its own; an empty candidate list returns None before any read
call_read_aggression(c) ==
    IF c.move_analyses = <<>> THEN [c EXCEPT !.pc = "comprehensive", !.suggested_move = NoMove]
    ELSE [c EXCEPT !.pc = "read_positional", !.aggression = personality_traits["aggression"]]

call_read_positional(c) ==
    [c EXCEPT !.pc = "read_tactical", !.positional = personality_traits["positional_play"]]

\* the third read and lines 581-620
call_read_tactical(c, rn, u) ==
    LET tactical == personality_traits["tactical_awareness"]
        seen == [t \in {"aggression", "positional_play", "tactical_awareness"} |->
                   IF t = "aggression" THEN c.aggression
                   ELSE IF t = "positional_play" THEN c.positional
                   ELSE tactical]
    IN [c EXCEPT !.pc = "comprehensive", !.tactical = tactical,
                 !.suggested_move = advanced_move_selection(c.move_analyses, c.elo, c.board, seen, rn, u)]

\* the dict of lines 521-530
final_result(c, position_eval) ==
    Result(c.suggested_move, c.best_move, c.best_eval, "Advanced analysis complete",
           "engine_analysis", c.move_analyses, position_eval)

\* lines 513-516 with 345-350: comprehensive_position_analysis checks the
\* handle and issues the second engine request; its exceptions are swallowed.
\* The locals of _advanced_move_selection, which has returned, are gone.
call_comprehensive(c) ==
    LET c1 == [c EXCEPT !.aggression = 0, !.positional = 0, !.tactical = 0]
    IN IF engine = "None" THEN Return(c1, final_result(c1, "None"))
       ELSE [c1 EXCEPT !.pc = "analyse2", !.requests = Append(@, "analyse")]

\* position_eval is "present", or "None" when the second analysis raised
call_analysed2(c, position_eval) == Return(c, final_result(c, position_eval))

\* ------------------------------------------------ the steps of one call
\* Each step is one action on call; what the collaborators answer is drawn
\* from the sets the specification passes in.
StepEnter ==
    /\ call.pc = "enter"
    /\ call' = call_enter(call)

StepBook(lookups) ==
    /\ call.pc = "find_all"
    /\ \E lookup \in lookups, u \in 0..(MaxPick - 1) : call' = call_book(call, lookup, u)

StepAnalysed(replies) ==
    /\ call.pc = "analyse"
    /\ \E reply \in replies, u \in 0..(MaxPick - 1) : call' = call_analysed(call, reply, u)

StepReadAggression ==
    /\ call.pc = "read_aggression"
    /\ call' = call_read_aggression(call)

StepReadPositional ==
    /\ call.pc = "read_positional"
    /\ call' = call_read_positional(call)

StepReadTactical ==
    /\ call.pc = "read_tactical"
    /\ \E rn \in 0..(RDen - 1), u \in 0..(MaxPick - 1) : call' = call_read_tactical(call, rn, u)

StepComprehensive ==
    /\ call.pc = "comprehensive"
    /\ call' = call_comprehensive(call)

StepAnalysed2 ==
    /\ call.pc = "analyse2"
    /\ \E position_eval \in {"present", "None"} : call' = call_analysed2(call, position_eval)

\* ------------------------------------------------------------------- quit
\* quit(): the book reader is closed (the attribute keeps the closed reader),
\* then the engine is quit and the handle set to None
quit_book(ob) == IF ob = "None" THEN "None" ELSE "closed"

quit_engine(e) == "None"

\* -------------------------------------------------------------- make_move
MaxCalls == 3      \* make_move calls counted in make_move_ret

NoMakeMove == [n |-> 0, move |-> NoMove, ok |-> "None"]

\* make_move recording the move in move_history before it tests its legality
MakeMoveRecordFirst(move) ==
    /\ make_move_ret.n < MaxCalls
    /\ move_history' = Append(move_history, move)
    /\ IF move \in legal_moves(board)
       THEN /\ board.ply < MaxPly
            /\ board' = push(board, move)
            /\ make_move_ret' = [n |-> make_move_ret.n + 1, move |-> move, ok |-> "True"]
       ELSE /\ make_move_ret' = [n |-> make_move_ret.n + 1, move |-> move, ok |-> "False"]
            /\ UNCHANGED board
    /\ UNCHANGED <<engine, opening_book, personality_traits, call, gui_vars, trainer>>

\* make_move(move): a legal move is pushed and recorded, any other refused
MakeMove(move) ==
    /\ make_move_ret.n < MaxCalls
    /\ IF move \in legal_moves(board)
       THEN /\ board.ply < MaxPly
            /\ board' = push(board, move)
            /\ move_history' = Append(move_history, move)
            /\ make_move_ret' = [n |-> make_move_ret.n + 1, move |-> move, ok |-> "True"]
       ELSE /\ make_move_ret' = [n |-> make_move_ret.n + 1, move |-> move, ok |-> "False"]
            /\ UNCHANGED <<board, move_history>>
    /\ UNCHANGED <<engine, opening_book, personality_traits, call, gui_vars, trainer>>

\* reset_board()
ResetBoard ==
    /\ board' = StartBoard
    /\ move_history' = <<>>
    /\ UNCHANGED <<engine, opening_book, personality_traits, call, make_move_ret, gui_vars, trainer>>

\* set_board(board): the caller's board replaces the internal one
SetBoard(b) ==
    /\ board' = b
    /\ UNCHANGED <<engine, opening_book, personality_traits, move_history, call, make_move_ret, gui_vars, trainer>>

\* ------------------------------------------------- inputs of SpecEngine
\* boards a caller passes: the start position (opening), a middlegame and an
\* endgame position, a finished game
MiddleBoard == [ply |-> 30, last |-> "m1", material |-> 50, pieces |-> 24, over |-> FALSE]
EndBoard == [ply |-> 80, last |-> "m2", material |-> 12, pieces |-> 8, over |-> FALSE]

AnalyzeBoards == {StartBoard, MiddleBoard, EndBoard, EmptyBoard}

Elos == {800, 1999, 2100, 2500}

ThreeEntries == <<Entry("m1", 10), Entry("m2", 5), Entry("m3", 1)>>
FourEntries == <<Entry("m1", 1), Entry("m2", 10), Entry("m3", 5), Entry("m4", 7)>>

BookLookups == {LookupRaises, Lookup(<<>>), Lookup(<<Entry("m2", 4)>>),
                Lookup(ThreeEntries), Lookup(FourEntries)}

InfoScores == {Cp(50, "white"), Cp(120, "black"), Cp(-400, "white"), Mate(1, "white")}

Infos == {[pv |-> NoMove, score |-> Cp(50, "white")]}
         \cup {[pv |-> m, score |-> s] : m \in {"m1", "m2"}, s \in InfoScores \cup {NoScore}}

SeqsUpTo(S, n) == UNION {[1..k -> S] : k \in 0..n}

EngineReplies == {ReplyRaises} \cup {Reply(infos) : infos \in SeqsUpTo(Infos, MaxLines)}

\* --------------------------------------------------------- opening trainer
\* OpeningTrainer (opening_trainer.py): the line in training, the position's
\* move stack and training_stats.  current_line and current_position are set
\* together; accuracy is the quotient num / den as it was last computed.
MaxPractice == 4   \* check_move calls counted in training_stats

\* _initialize_openings: two of the lines, each with its first two moves and
\* their alternatives
openings_database ==
    [name \in {"Italian Game", "Sicilian Defense"} |->
        <<[move |-> "e2e4", alternatives |-> {"d2d4", "g1f3", "c2c4"}],
          IF name = "Italian Game"
          THEN [move |-> "e7e5", alternatives |-> {"c7c5", "e7e6", "c7c6"}]
          ELSE [move |-> "c7c5", alternatives |-> {"e7e5", "e7e6", "c7c6"}]>>]

\* __init__: no line, no position, empty statistics; ret is what the last
\* call returned
NewTrainer ==
    [current_line |-> "None", move_stack |-> <<>>, moves_practiced |-> 0,
     accuracy |-> [num |-> 0, den |-> 1],
     opening_scores |-> [name \in DOMAIN openings_database |-> [correct |-> 0, total |-> 0]],
     ret |-> [op |-> "None", compared |-> FALSE, is_correct |-> FALSE]]

\* get_next_move_info: None without a line, else 'complete' or 'active'
next_move_status(t) ==
    IF t.current_line = "None" THEN "None"
    ELSE IF Len(t.move_stack) >= Len(openings_database[t.current_line]) THEN "complete"
    ELSE "active"

\* sum(score[field] for score in opening_scores.values())
RECURSIVE sum_scores(_, _, _)
sum_scores(opening_scores, names, field) ==
    IF names = {} THEN 0
    ELSE LET name == CHOOSE n \in names : TRUE
         IN opening_scores[name][field] + sum_scores(opening_scores, names \ {name}, field)

\* check_move(move): the early returns, the counters, then the comparison;
\* only the branch of a correct move recomputes the accuracy
check_move(t, move) ==
    IF next_move_status(t) # "active"
    THEN [t EXCEPT !.ret = [op |-> "check_move", compared |-> FALSE, is_correct |-> FALSE]]
    ELSE LET opening_name == t.current_line
             expected == openings_database[opening_name][Len(t.move_stack) + 1]
             counted == [t EXCEPT !.moves_practiced = @ + 1,
                                  !.opening_scores[opening_name].total = @ + 1]
         IN IF move = expected.move
            THEN LET scored == [counted EXCEPT !.move_stack = Append(@, move),
                                               !.opening_scores[opening_name].correct = @ + 1]
                     total_correct ==
                         sum_scores(scored.opening_scores, DOMAIN scored.opening_scores, "correct")
                     total_moves ==
                         sum_scores(scored.opening_scores, DOMAIN scored.opening_scores, "total")
                 IN [scored EXCEPT
                       !.accuracy = IF total_moves > 0
                                    THEN [num |-> total_correct, den |-> total_moves]
                                    ELSE [num |-> 0, den |-> 1],
                       !.ret = [op |-> "check_move", compared |-> TRUE, is_correct |-> TRUE]]
            ELSE IF move \in expected.alternatives
            THEN [counted EXCEPT
                    !.move_stack = Append(@, move),
                    !.ret = [op |-> "check_move", compared |-> TRUE, is_correct |-> FALSE]]
            ELSE [counted EXCEPT
                    !.ret = [op |-> "check_move", compared |-> TRUE, is_correct |-> FALSE]]

\* moves a caller passes: main-line moves, alternatives and a move that is neither
TrainerMoves == {"e2e4", "e7e5", "c7c5", "d2d4", "a2a3"}

\* start_opening_training(opening_name); an unknown name returns None
StartOpeningTraining ==
    /\ \E opening_name \in DOMAIN openings_database \cup {"King's Gambit"} :
          trainer' =
              IF opening_name \in DOMAIN openings_database
              THEN [trainer EXCEPT
                      !.current_line = opening_name, !.move_stack = <<>>,
                      !.ret = [op |-> "start_opening_training", compared |-> FALSE,
                               is_correct |-> FALSE]]
              ELSE [trainer EXCEPT
                      !.ret = [op |-> "start_opening_training", compared |-> FALSE,
                               is_correct |-> FALSE]]
    /\ UNCHANGED <<engine_vars, call, make_move_ret, gui_vars>>

CheckMove ==
    /\ trainer.moves_practiced < MaxPractice
    /\ \E move \in TrainerMoves : trainer' = check_move(trainer, move)
    /\ UNCHANGED <<engine_vars, call, make_move_ret, gui_vars>>

\* skip_move: the expected move is pushed (it is legal in each of the
\* positions of these lines); no statistics change
SkipMove ==
    /\ next_move_status(trainer) = "active"
    /\ trainer' =
          [trainer EXCEPT
              !.move_stack =
                  Append(@, openings_database[trainer.current_line][Len(trainer.move_stack) + 1].move),
              !.ret = [op |-> "skip_move", compared |-> FALSE, is_correct |-> FALSE]]
    /\ UNCHANGED <<engine_vars, call, make_move_ret, gui_vars>>

\* reset_current_opening
ResetCurrentOpening ==
    /\ trainer.current_line # "None"
    /\ trainer' = [trainer EXCEPT
                      !.move_stack = <<>>,
                      !.ret = [op |-> "reset_current_opening", compared |-> FALSE,
                               is_correct |-> FALSE]]
    /\ UNCHANGED <<engine_vars, call, make_move_ret, gui_vars>>

\* ------------------------------------------------------------- SpecEngine
\* no window: the engine object is driven by its caller alone
NoGui ==
    /\ gui_engine = "None"
    /\ current_board = StartBoard
    /\ last_analysis = NoResult
    /\ analysis_worker = "None"
    /\ signals = <<>>
    /\ buttons_enabled = TRUE
    /\ gui_pc = "idle"
    /\ new_traits = <<>>
    /\ suggest_ret = "None"
    /\ delivered = 0

InitEngine ==
    /\ engine = "open"
    /\ opening_book \in {"None", "open"}
    /\ personality_traits = DefaultTraits
    /\ board = StartBoard
    /\ move_history = <<>>
    /\ call = NoCall
    /\ make_move_ret = NoMakeMove
    /\ NoGui
    /\ trainer = NewTrainer

\* analyze_position_advanced(board, elo) is called
Analyze ==
    /\ call.pc \in {"none", "done"}
    /\ \E b \in AnalyzeBoards, elo \in Elos : call' = NewCall(b, elo)
    /\ UNCHANGED <<engine_vars, make_move_ret, gui_vars, trainer>>

EngEnter == StepEnter /\ UNCHANGED <<engine_vars, make_move_ret, gui_vars, trainer>>
EngBook == StepBook(BookLookups) /\ UNCHANGED <<engine_vars, make_move_ret, gui_vars, trainer>>
EngAnalysed == StepAnalysed(EngineReplies) /\ UNCHANGED <<engine_vars, make_move_ret, gui_vars, trainer>>
EngReadAggression == StepReadAggression /\ UNCHANGED <<engine_vars, make_move_ret, gui_vars, trainer>>
EngReadPositional == StepReadPositional /\ UNCHANGED <<engine_vars, make_move_ret, gui_vars, trainer>>
EngReadTactical == StepReadTactical /\ UNCHANGED <<engine_vars, make_move_ret, gui_vars, trainer>>
EngComprehensive == StepComprehensive /\ UNCHANGED <<engine_vars, make_move_ret, gui_vars, trainer>>
EngAnalysed2 == StepAnalysed2 /\ UNCHANGED <<engine_vars, make_move_ret, gui_vars, trainer>>

\* quit(), between two calls
Quit ==
    /\ call.pc \in {"none", "done"}
    /\ opening_book' = quit_book(opening_book)
    /\ engine' = quit_engine(engine)
    /\ UNCHANGED <<personality_traits, board, move_history, call, make_move_ret, gui_vars, trainer>>

NextEngine ==
    \/ Analyze
    \/ EngEnter
    \/ EngBook
    \/ EngAnalysed
    \/ EngReadAggression
    \/ EngReadPositional
    \/ EngReadTactical
    \/ EngComprehensive
    \/ EngAnalysed2
    \/ Quit

SpecEngine == InitEngine /\ [][NextEngine]_vars

\* ------------------------------------------------------------------ Spec
\* The window of chess_gui_advanced.py.  Handlers run on the GUI thread, one at
\* a time, from the event loop (gui_pc = "idle"); a handler that blocks or
\* loops keeps the GUI thread (gui_pc) until it is through.  The worker thread
\* runs the steps of the call while analysis_worker = "running".
SessionElos == {1500}

SessionLookups == {LookupRaises, Lookup(<<Entry("m2", 4)>>)}

SessionReplies ==
    {ReplyRaises, Reply(<<>>),
     Reply(<<[pv |-> "m1", score |-> Cp(50, "white")], [pv |-> "m2", score |-> Cp(120, "black")]>>)}

\* the trait map PersonalityDialog.get_traits returns: all five traits, in the
\* order of the dialog's dict
TraitOrder == <<"aggression", "positional_play", "tactical_awareness", "endgame_skill", "opening_knowledge">>

DialogTraits(value) == [i \in 1..5 |-> [trait |-> TraitOrder[i], value |-> value]]

Profiles == {DialogTraits(100)}

\* __init__: init_engine builds the engine object or, when that raises,
\* leaves self.engine None; the book is found or not
Init ==
    /\ \/ /\ gui_engine = "engine"
          /\ engine = "open"
          /\ opening_book \in {"None", "open"}
       \/ /\ gui_engine = "None"
          /\ engine = "None"
          /\ opening_book = "None"
    /\ personality_traits = DefaultTraits
    /\ board = StartBoard
    /\ move_history = <<>>
    /\ call = NoCall
    /\ make_move_ret = NoMakeMove
    /\ current_board = StartBoard
    /\ last_analysis = NoResult
    /\ analysis_worker = "None"
    /\ signals = <<>>
    /\ buttons_enabled = TRUE
    /\ gui_pc = "idle"
    /\ new_traits = <<>>
    /\ suggest_ret = "None"
    /\ delivered = 0
    /\ trainer = NewTrainer

isRunning == analysis_worker = "running"

\* suggest_move without the isRunning test of lines 867-869
SuggestMoveUnchecked ==
    /\ gui_pc = "idle"
    /\ buttons_enabled
    /\ IF gui_engine = "None"
       THEN /\ suggest_ret' = "Engine not available"
            /\ UNCHANGED <<call, analysis_worker, buttons_enabled, delivered>>
       ELSE IF is_game_over(current_board)
       THEN /\ suggest_ret' = "Game is over"
            /\ UNCHANGED <<call, analysis_worker, buttons_enabled, delivered>>
       ELSE /\ \E elo \in SessionElos : call' = NewCall(current_board, elo)
            /\ analysis_worker' = "running"
            /\ buttons_enabled' = FALSE
            /\ delivered' = 0
            /\ suggest_ret' = "Analyzing position"
    /\ UNCHANGED <<engine_vars, make_move_ret, gui_engine, trainer, current_board, last_analysis,
                   signals, gui_pc, new_traits>>

\* suggest_move without the engine test of lines 859-861
SuggestMoveWithoutEngine ==
    /\ gui_pc = "idle"
    /\ buttons_enabled
    /\ IF is_game_over(current_board)
       THEN /\ suggest_ret' = "Game is over"
            /\ UNCHANGED <<call, analysis_worker, buttons_enabled, delivered>>
       ELSE IF isRunning
       THEN /\ suggest_ret' = "Analysis already in progress"
            /\ UNCHANGED <<call, analysis_worker, buttons_enabled, delivered>>
       ELSE /\ \E elo \in SessionElos : call' = NewCall(current_board, elo)
            /\ analysis_worker' = "running"
            /\ buttons_enabled' = FALSE
            /\ delivered' = 0
            /\ suggest_ret' = "Analyzing position"
    /\ UNCHANGED <<engine_vars, make_move_ret, gui_engine, trainer, current_board, last_analysis,
                   signals, gui_pc, new_traits>>

\* suggest_move, the slot of suggest_move_btn (a disabled button emits no click)
SuggestMove ==
    /\ gui_pc = "idle"
    /\ buttons_enabled
    /\ IF gui_engine = "None"
       THEN /\ suggest_ret' = "Engine not available"
            /\ UNCHANGED <<call, analysis_worker, buttons_enabled, delivered>>
       ELSE IF is_game_over(current_board)
       THEN /\ suggest_ret' = "Game is over"
            /\ UNCHANGED <<call, analysis_worker, buttons_enabled, delivered>>
       ELSE IF isRunning
       THEN /\ suggest_ret' = "Analysis already in progress"
            /\ UNCHANGED <<call, analysis_worker, buttons_enabled, delivered>>
       ELSE /\ \E elo \in SessionElos : call' = NewCall(current_board, elo)
            /\ analysis_worker' = "running"
            /\ buttons_enabled' = FALSE
            /\ delivered' = 0
            /\ suggest_ret' = "Analyzing position"
    /\ UNCHANGED <<engine_vars, make_move_ret, gui_engine, trainer, current_board, last_analysis,
                   signals, gui_pc, new_traits>>

\* AnalysisWorker.run: the call's steps, on the worker thread
worker_frame == UNCHANGED <<engine_vars, make_move_ret, gui_vars, trainer>>

WorkerEnter == isRunning /\ StepEnter /\ worker_frame
WorkerBook == isRunning /\ StepBook(SessionLookups) /\ worker_frame
WorkerAnalysed == isRunning /\ StepAnalysed(SessionReplies) /\ worker_frame
WorkerReadAggression == isRunning /\ StepReadAggression /\ worker_frame
WorkerReadPositional == isRunning /\ StepReadPositional /\ worker_frame
WorkerReadTactical == isRunning /\ StepReadTactical /\ worker_frame
WorkerComprehensive == isRunning /\ StepComprehensive /\ worker_frame
WorkerAnalysed2 == isRunning /\ StepAnalysed2 /\ worker_frame

\* run, lines 53 and 55: the result is emitted as analysis_complete, an
\* exception as analysis_error; the connection to the window is queued.
\* Nothing reads the call's elo and locals after this: they are dropped.  The
\* worker object keeps self.board, the copy taken at dispatch (line 45).
Emitted(c) ==
    IF c.ret.raised = "None" THEN [signal |-> "analysis_complete", arg |-> c.ret]
    ELSE [signal |-> "analysis_error", arg |-> c.ret]

\* run emitting analysis_error after analysis_complete, as it would if the
\* emit of line 53 raised inside the try
WorkerEmitBoth ==
    /\ isRunning
    /\ call.pc = "done"
    /\ signals' = signals \o <<Emitted(call), [signal |-> "analysis_error", arg |-> call.ret]>>
    /\ call' = [NoCall EXCEPT !.pc = "emitted", !.board = call.board]
    /\ UNCHANGED <<engine_vars, make_move_ret, gui_engine, trainer, current_board, last_analysis,
                   analysis_worker, buttons_enabled, gui_pc, new_traits, suggest_ret, delivered>>

WorkerEmit ==
    /\ isRunning
    /\ call.pc = "done"
    /\ signals' = Append(signals, Emitted(call))
    /\ call' = [NoCall EXCEPT !.pc = "emitted", !.board = call.board]
    /\ UNCHANGED <<engine_vars, make_move_ret, gui_engine, trainer, current_board, last_analysis,
                   analysis_worker, buttons_enabled, gui_pc, new_traits, suggest_ret, delivered>>

\* run has returned: the thread is no longer running
WorkerFinish ==
    /\ isRunning
    /\ call.pc = "emitted"
    /\ analysis_worker' = "finished"
    /\ UNCHANGED <<engine_vars, make_move_ret, call, gui_engine, trainer, current_board, last_analysis,
                   signals, buttons_enabled, gui_pc, new_traits, suggest_ret, delivered>>

\* on_analysis_complete / on_analysis_error, run by the event loop for the
\* oldest queued signal
Deliver ==
    /\ gui_pc = "idle"
    /\ signals # <<>>
    /\ signals' = Tail(signals)
    /\ buttons_enabled' = TRUE
    /\ delivered' = delivered + 1
    /\ last_analysis' = IF Head(signals).signal = "analysis_complete"
                        THEN Head(signals).arg ELSE last_analysis
    /\ UNCHANGED <<engine_vars, make_move_ret, call, gui_engine, trainer, current_board,
                   analysis_worker, gui_pc, new_traits, suggest_ret>>

\* make_bot_move, the slot of make_bot_move_btn
MakeBotMove ==
    /\ gui_pc = "idle"
    /\ buttons_enabled
    /\ IF last_analysis = NoResult \/ last_analysis.suggested_move = NoMove
       THEN UNCHANGED <<current_board, last_analysis>>
       ELSE IF last_analysis.suggested_move \in legal_moves(current_board)
       THEN /\ current_board.ply < MaxPly
            /\ current_board' = push(current_board, last_analysis.suggested_move)
            /\ last_analysis' = NoResult
       ELSE UNCHANGED <<current_board, last_analysis>>
    /\ UNCHANGED <<engine_vars, make_move_ret, call, gui_engine, trainer, analysis_worker, signals,
                   buttons_enabled, gui_pc, new_traits, suggest_ret, delivered>>

\* on_board_square_clicked, second click: a legal move is pushed
UserMove ==
    /\ gui_pc = "idle"
    /\ current_board.ply < MaxPly
    /\ \E move \in legal_moves(current_board) : current_board' = push(current_board, move)
    /\ UNCHANGED <<engine_vars, make_move_ret, call, gui_engine, trainer, last_analysis, analysis_worker,
                   signals, buttons_enabled, gui_pc, new_traits, suggest_ret, delivered>>

\* new_game
NewGame ==
    /\ gui_pc = "idle"
    /\ current_board' = StartBoard
    /\ last_analysis' = NoResult
    /\ IF gui_engine = "engine"
       THEN board' = StartBoard /\ move_history' = <<>>
       ELSE UNCHANGED <<board, move_history>>
    /\ UNCHANGED <<engine, opening_book, personality_traits, make_move_ret, call, gui_engine, trainer,
                   analysis_worker, signals, buttons_enabled, gui_pc, new_traits, suggest_ret,
                   delivered>>

\* reset_position
ResetPosition ==
    /\ gui_pc = "idle"
    /\ current_board' = EmptyBoard
    /\ last_analysis' = NoResult
    /\ UNCHANGED <<engine_vars, make_move_ret, call, gui_engine, trainer, analysis_worker, signals,
                   buttons_enabled, gui_pc, new_traits, suggest_ret, delivered>>
\* get_training_hints: engine.get_training_hints calls
\* comprehensive_position_analysis, whose engine.analyse blocks the GUI thread;
\* a missing handle raises inside it and becomes an "Analysis error" hint
HintsBegin ==
    /\ gui_pc = "idle"
    /\ gui_pc' = IF gui_engine = "engine" /\ engine = "open" THEN "hints" ELSE "idle"
    /\ UNCHANGED <<engine_vars, make_move_ret, call, gui_engine, trainer, current_board, last_analysis,
                   analysis_worker, signals, buttons_enabled, new_traits, suggest_ret, delivered>>

\* the engine answers (or raises): the hints are shown
HintsEnd ==
    /\ gui_pc = "hints"
    /\ gui_pc' = "idle"
    /\ UNCHANGED <<engine_vars, make_move_ret, call, gui_engine, trainer, current_board, last_analysis,
                   analysis_worker, signals, buttons_enabled, new_traits, suggest_ret, delivered>>

\* configure_personality: the dialog is accepted and set_personality starts
ConfigurePersonality ==
    /\ gui_pc = "idle"
    /\ gui_engine = "engine"
    /\ \E traits \in Profiles : new_traits' = traits
    /\ gui_pc' = "set_personality"
    /\ UNCHANGED <<engine_vars, make_move_ret, call, gui_engine, trainer, current_board, last_analysis,
                   analysis_worker, signals, buttons_enabled, suggest_ret, delivered>>

\* the value written as it is given
unclamped_trait(value) == value

\* max(0.0, min(1.0, value)), in percent
clamp_trait(value) == Max(0, Min(100, value))

\* one round of the loop of set_personality: one trait is written
SetTrait ==
    /\ gui_pc = "set_personality"
    /\ new_traits # <<>>
    /\ LET item == Head(new_traits)
       IN personality_traits' =
            IF item.trait \in DOMAIN personality_traits
            THEN [personality_traits EXCEPT ![item.trait] = clamp_trait(item.value)]
            ELSE personality_traits
    /\ new_traits' = Tail(new_traits)
    /\ gui_pc' = IF Tail(new_traits) = <<>> THEN "idle" ELSE "set_personality"
    /\ UNCHANGED <<engine, opening_book, board, move_history, make_move_ret, call, gui_engine, trainer,
                   current_board, last_analysis, analysis_worker, signals, buttons_enabled,
                   suggest_ret, delivered>>

\* closeEvent without lines 1125-1127: the worker is left as it is
leave_worker(worker) == worker

\* closeEvent, lines 1121-1127: a running worker is terminated and waited for
terminate(worker) == IF worker = "running" THEN "terminated" ELSE worker

CloseEvent ==
    /\ gui_pc = "idle"
    /\ analysis_worker' = terminate(analysis_worker)
    /\ gui_pc' = IF gui_engine = "engine" THEN "quit_book" ELSE "closed"
    /\ UNCHANGED <<engine_vars, make_move_ret, call, gui_engine, trainer, current_board, last_analysis,
                   signals, buttons_enabled, new_traits, suggest_ret, delivered>>

\* engine.quit(), lines 745-749: the book is closed
QuitBook ==
    /\ gui_pc = "quit_book"
    /\ opening_book' = quit_book(opening_book)
    /\ gui_pc' = "quit_engine"
    /\ UNCHANGED <<engine, personality_traits, board, move_history, make_move_ret, call,
                   gui_engine, trainer, current_board, last_analysis, analysis_worker, signals,
                   buttons_enabled, new_traits, suggest_ret, delivered>>

\* engine.quit(), lines 751-758: the engine is quit and the handle dropped;
\* the event is accepted and the window is gone
QuitEngine ==
    /\ gui_pc = "quit_engine"
    /\ engine' = quit_engine(engine)
    /\ gui_pc' = "closed"
    /\ UNCHANGED <<opening_book, personality_traits, board, move_history, make_move_ret, call,
                   gui_engine, trainer, current_board, last_analysis, analysis_worker, signals,
                   buttons_enabled, new_traits, suggest_ret, delivered>>

Next ==
    \/ SuggestMove
    \/ WorkerEnter
    \/ WorkerBook
    \/ WorkerAnalysed
    \/ WorkerReadAggression
    \/ WorkerReadPositional
    \/ WorkerReadTactical
    \/ WorkerComprehensive
    \/ WorkerAnalysed2
    \/ WorkerEmit
    \/ WorkerFinish
    \/ Deliver
    \/ MakeBotMove
    \/ UserMove
    \/ NewGame
    \/ ResetPosition
    \/ HintsBegin
    \/ HintsEnd
    \/ ConfigurePersonality
    \/ SetTrait
    \/ CloseEvent
    \/ QuitBook
    \/ QuitEngine

Spec == Init /\ [][Next]_vars

\* The threads are scheduled.  The worker thread takes its next step (at most
\* one is enabled, by call.pc); the engine answers a request; the GUI thread
\* goes on with the handler that holds it; the event loop gets to a queued
\* signal.
WorkerStep ==
    \/ WorkerEnter \/ WorkerBook \/ WorkerAnalysed \/ WorkerReadAggression
    \/ WorkerReadPositional \/ WorkerReadTactical \/ WorkerComprehensive
    \/ WorkerAnalysed2 \/ WorkerEmit \/ WorkerFinish

HandlerStep == HintsEnd \/ SetTrait \/ QuitBook \/ QuitEngine

Fairness == WF_vars(WorkerStep) /\ WF_vars(HandlerStep) /\ SF_vars(Deliver)

FairSpec == Spec /\ Fairness

\* -------------------------------------------------------------- SpecBoard
MakeMoveAny == \E move \in Moves : MakeMove(move)

SetBoardAny == \E b \in {StartBoard, EmptyBoard} : SetBoard(b)

NextBoard ==
    \/ MakeMoveAny
    \/ ResetBoard
    \/ SetBoardAny

SpecBoard == InitEngine /\ [][NextBoard]_vars
\* --------------------------------------------------------------- SpecPure
\* _advanced_move_selection, _classify_moves and detect_game_phase called
\* directly, one call after the other, with arguments of the caller's choice.
\* call holds the frame of the last call: its arguments, its draws, its result.

\* the reply of three ranked lines with white scores +50, +10, -120
ThreeLines ==
    <<[pv |-> "m1", score |-> Cp(50, "white")],
      [pv |-> "m2", score |-> Cp(10, "white")],
      [pv |-> "m3", score |-> Cp(-120, "white")]>>

\* lines 465-507 on a reply: the candidate list as _advanced_move_selection
\* receives it
classified(infos) ==
    LET best_eval == IF infos # <<>> /\ infos[1].pv # NoMove THEN info_score(infos[1]) ELSE NoScore
    IN classify_moves(process_analysis(infos), best_eval)

\* candidate lists: buckets excellent/excellent/good; excellent/okay/poor; a
\* mate line first (accuracy 0) then an excellent one; one line; none
SelectorReplies ==
    {ThreeLines,
     <<[pv |-> "m1", score |-> Cp(50, "white")], [pv |-> "m2", score |-> Cp(-200, "white")],
       [pv |-> "m3", score |-> Cp(-400, "white")]>>,
     <<[pv |-> "m1", score |-> Mate(1, "white")], [pv |-> "m2", score |-> Cp(50, "white")]>>,
     <<[pv |-> "m2", score |-> Cp(120, "black")]>>,
     <<>>}

\* boards of the three phases, and a second opening position
SelectorBoards == {StartBoard, push(StartBoard, "m1"), MiddleBoard, EndBoard}

\* set_personality(traits), run to its end by a single thread: the items are
\* written in the order of the dict, unknown names skipped, values clamped
RECURSIVE set_personality(_, _)
set_personality(current, traits) ==
    IF traits = <<>> THEN current
    ELSE LET item == Head(traits)
             written == IF item.trait \in DOMAIN current
                        THEN [current EXCEPT ![item.trait] = clamp_trait(item.value)]
                        ELSE current
         IN set_personality(written, Tail(traits))

SetPersonality(traits) ==
    /\ call.pc = "none"
    /\ personality_traits' = set_personality(personality_traits, traits)
    /\ UNCHANGED <<engine, opening_book, board, move_history, call, make_move_ret, gui_vars, trainer>>

SetPersonalityProfile == \E traits \in Profiles : SetPersonality(traits)

\* _advanced_move_selection(move_analyses, elo, board) is called; the frame
\* keeps its arguments, the traits it read, its draws and the move it returns
AdvancedMoveSelection ==
    /\ call.pc = "none"
    /\ \E infos \in SelectorReplies, elo \in Elos, b \in SelectorBoards,
          rn \in 0..(RDen - 1), u \in 0..(MaxPick - 1) :
          call' = [pc |-> "selected", move_analyses |-> classified(infos), elo |-> elo,
                   board |-> b, personality_traits |-> personality_traits,
                   random_value |-> rn, pick |-> u,
                   suggested_move |->
                       advanced_move_selection(classified(infos), elo, b, personality_traits, rn, u)]
    /\ UNCHANGED <<engine_vars, make_move_ret, gui_vars, trainer>>

\* best scores and candidate scores around the thresholds of the cascade,
\* from both points of view, with mate scores
BestScores ==
    {NoScore, Mate(2, "white"), Cp(0, "white"), Cp(100, "black"), Cp(1200, "white")}

ClassScores ==
    {Cp(v, "white") : v \in {0, -49, -50, -149, -150, -299, -300, 100, -1300}}
    \cup {Cp(400, "black"), Mate(-1, "white")}

\* fresh MoveAnalysis lists, as lines 483-493 build them
ClassCandidates ==
    {[k \in 1..Len(scores) |-> MoveAnalysis(MoveOrder[k], scores[k], k)] :
        scores \in SeqsUpTo(ClassScores, MaxLines)}

\* _classify_moves(move_analyses, best_score) is called; the frame keeps the
\* best score and the list as the call leaves it
ClassifyMoves ==
    /\ call.pc = "none"
    /\ \E move_analyses \in ClassCandidates, best_score \in BestScores :
          call' = [pc |-> "classified", best_score |-> best_score,
                   move_analyses |-> classify_moves(move_analyses, best_score)]
    /\ UNCHANGED <<engine_vars, make_move_ret, gui_vars, trainer>>

\* piece sets around the bounds of the phases: material 59, 60 and 61, 20 and
\* 21, piece counts 12 and 13, and queens enough for material 63 on 9 pieces
Censuses ==
    [queen : {0, 2, 7}, rook : {0, 2, 4}, bishop : {0, 2}, knight : {0, 2},
     pawn : {0, 6, 7, 9, 10, 11}, king : {2}]

\* detect_game_phase(board) is called on a position at fullmove 1, 12 or 13
DetectGamePhase ==
    /\ call.pc = "none"
    /\ \E census \in Censuses, ply \in {0, 22, 23, 24} :
          call' = [pc |-> "phase", census |-> census, board |-> position(census, ply),
                   game_phase |-> detect_game_phase(position(census, ply))]
    /\ UNCHANGED <<engine_vars, make_move_ret, gui_vars, trainer>>

\* the call returns to its caller
ReturnPure ==
    /\ call.pc \in {"selected", "classified", "phase"}
    /\ call' = NoCall
    /\ UNCHANGED <<engine_vars, make_move_ret, gui_vars, trainer>>

NextPure ==
    \/ SetPersonalityProfile
    \/ AdvancedMoveSelection
    \/ ClassifyMoves
    \/ DetectGamePhase
    \/ ReturnPure

SpecPure == InitEngine /\ [][NextPure]_vars

\* trait maps a caller of set_personality may pass: up to two items, with
\* values below 0, inside and above 1 (in percent) and a name that is not a trait
TraitMaps ==
    LET items == {[trait |-> t, value |-> v] : t \in Traits \cup {"unknown"}, v \in {-50, 30, 150}}
    IN {<<>>} \cup {<<a>> : a \in items}
       \cup {<<p[1], p[2]>> : p \in {q \in items \X items : q[1].trait # q[2].trait}}

SetPersonalityMap == \E traits \in TraitMaps : SetPersonality(traits)

\* an engine object that receives set_personality calls only
SpecPersonality == InitEngine /\ [][SetPersonalityMap]_vars

NextTrainer ==
    \/ StartOpeningTraining
    \/ CheckMove
    \/ SkipMove
    \/ ResetCurrentOpening

\* an OpeningTrainer object driven by its caller
SpecTrainer == InitEngine /\ [][NextTrainer]_vars

\* ================================================================== claims
\* ---------------------------------------------------------------------- C1
\* engine.analyse calls in flight: the worker's (the first one of
\* analyze_position_advanced, the one of comprehensive_position_analysis) and
\* the GUI thread's (get_training_hints)
WorkerAnalyse == isRunning /\ call.pc \in {"analyse", "analyse2"}

GuiAnalyse == gui_pc = "hints"

\* C1: at most one engine request is in flight per engine handle: no call of
\* engine.analyse from get_training_hints on the GUI thread overlaps one of the
\* background worker
C1_AtMostOneInFlight == ~(WorkerAnalyse /\ GuiAnalyse)

\* ---------------------------------------------------------------------- C2
\* C2: a suggest_move issued while the worker is running is rejected: it
\* creates no worker, queues nothing and leaves the running call as it is
\* (a finished game is reported first, lines 863-865);
\* no step starts a call over while the worker runs; and the outcome of the
\* running worker has been delivered whenever the button can be clicked
C2_RejectedWhileRunning ==
    /\ [](isRunning /\ buttons_enabled => delivered = 1)
    /\ [][isRunning =>
            /\ call'.pc = "enter" => call' = call
            /\ SuggestMove =>
                 /\ call' = call
                 /\ analysis_worker' = analysis_worker
                 /\ signals' = signals
                 /\ delivered' = delivered
                 /\ suggest_ret' = IF is_game_over(current_board) THEN "Game is over"
                                   ELSE "Analysis already in progress"]_vars

C2_Witness == isRunning /\ suggest_ret = "Analysis already in progress"

\* ---------------------------------------------------------------------- C3
Closing == gui_pc \in {"quit_book", "quit_engine", "closed"}

\* C3, as stated: every accepted dispatch delivers an outcome once the engine
\* has answered, so the worker of a dispatch is never gone with no outcome
\* delivered and none queued
C3_EveryDispatchDelivers ==
    ~(analysis_worker = "terminated" /\ delivered = 0 /\ signals = <<>>)

\* C3, amended: a dispatch delivers at most one outcome; unless the window is
\* closed first it delivers one; the controls are enabled from the delivery to
\* the next dispatch, and the worker then stops running, so that a dispatch is
\* accepted again
C3_DeliversUnlessClosed ==
    /\ [](delivered <= 1)
    /\ [](delivered = 1 => buttons_enabled)
    /\ (isRunning /\ delivered = 0) ~> (delivered = 1 \/ Closing)
    /\ (delivered = 1) ~> ~isRunning

\* a second dispatch accepted after the outcome of a first one was delivered
C3_Witness ==
    /\ isRunning /\ delivered = 0 /\ suggest_ret = "Analyzing position"
    /\ last_analysis # NoResult

\* ---------------------------------------------------------------------- C4
\* C4: on close the worker is terminated first, then the book is closed, then
\* the engine handle: no worker runs once quit() has begun, and with the handle
\* closed no request is in flight and the book is not open
C4_ShutdownOrder ==
    /\ Closing => ~isRunning
    /\ opening_book = "closed" => ~isRunning
    /\ (gui_engine = "engine" /\ engine = "None") =>
          ~isRunning /\ ~GuiAnalyse /\ opening_book # "open"

\* the window closed over a worker that was waiting for the engine
C4_Witness ==
    /\ gui_pc = "closed" /\ engine = "None" /\ opening_book = "closed"
    /\ analysis_worker = "terminated" /\ call.pc = "analyse"

\* ---------------------------------------------------------------------- C5
\* the versions the profile goes through: the default one and each one a
\* dialog sets
profile_of(traits) ==
    [t \in Traits |->
        clamp_trait(traits[CHOOSE i \in 1..Len(traits) : traits[i].trait = t].value)]

ProfileVersions == {DefaultTraits} \cup {profile_of(traits) : traits \in Profiles}

SelectionDone == call.pc = "comprehensive" /\ call.move_analyses # <<>>

\* C5: the three traits a selection has read are all from one version of the
\* profile, never a mix of old and new values
C5_ReadsOneVersion ==
    SelectionDone =>
        \E v \in ProfileVersions :
            /\ call.aggression = v["aggression"]
            /\ call.positional = v["positional_play"]
            /\ call.tactical = v["tactical_awareness"]

\* ---------------------------------------------------------------------- C6
\* a call has returned after engine.analyse answered with an empty list
EmptyReplyReturned ==
    /\ call.pc = "done"
    /\ call.requests # <<>>
    /\ call.requests[Len(call.requests)] = "analyse"
    /\ ~call.analysis.raises
    /\ call.analysis.infos = <<>>

\* C6: when engine.analyse returns an empty list for a position that is not
\* game over, the result carries a suggested move that is a legal move
C6_FallbackOnEmptyReply ==
    EmptyReplyReturned =>
        /\ call.ret.raised = "None"
        /\ call.ret.suggested_move \in legal_moves(call.board)

\* ---------------------------------------------------------------------- C7
\* a call has ended on a failure: the handle was absent when it was made (no
\* request was issued for a position that is not game over), or
\* engine.analyse raised
HandleAbsent == call.pc = "done" /\ call.requests = <<>> /\ ~is_game_over(call.board)

AnalyseRaised == call.pc = "done" /\ call.analysis.raises

\* C7: every per-call failure is captured in the result's message with no
\* suggested move; no exception leaves the call
C7_FailuresCaptured ==
    (HandleAbsent \/ AnalyseRaised) =>
        /\ call.ret.raised = "None"
        /\ call.ret.message # "None"
        /\ call.ret.suggested_move = NoMove

\* ---------------------------------------------------------------------- C8
\* C8: a make_move call with a move that is not legal returns False and
\* leaves the board, move_history and the engine's call state as they are; one
\* with a legal move pushes it and appends it to move_history once
C8_MakeMoveFrame ==
    [][make_move_ret'.n = make_move_ret.n + 1 =>
         LET move == make_move_ret'.move
         IN IF move \in legal_moves(board)
            THEN /\ make_move_ret'.ok = "True"
                 /\ board' = push(board, move)
                 /\ move_history' = Append(move_history, move)
                 /\ call' = call /\ engine' = engine
            ELSE /\ make_move_ret'.ok = "False"
                 /\ board' = board
                 /\ move_history' = move_history
                 /\ call' = call /\ engine' = engine]_vars

\* a move refused after a move was made
C8_Witness ==
    /\ make_move_ret.ok = "False"
    /\ move_history # <<>>
    /\ make_move_ret.move \notin legal_moves(board)

\* ---------------------------------------------------------------------- C9
\* the book was consulted and the lookup raised or yielded nothing
BookMiss ==
    /\ call.requests # <<>>
    /\ call.requests[1] = "find_all"
    /\ call.pc # "find_all"
    /\ call.book_moves.raises \/ call.book_moves.entries = <<>>

\* the message of the engine path for the reply the engine gave
EnginePathMessage(c) ==
    IF c.analysis.raises THEN "Advanced analysis failed"
    ELSE IF c.analysis.infos = <<>> THEN "No analysis available"
    ELSE IF \A i \in 1..Len(c.analysis.infos) : c.analysis.infos[i].pv = NoMove
    THEN "Fallback to random move"
    ELSE "Advanced analysis complete"

\* C9: a book lookup that raises or returns no entries is a miss: the call
\* goes on to engine.analyse, and its result is the engine path's, no
\* exception and no message coming from the book
C9_BookMissFallsThrough ==
    BookMiss =>
        /\ Len(call.requests) >= 2
        /\ call.requests[2] = "analyse"
        /\ call.pc = "done" =>
              /\ call.ret.raised = "None"
              /\ call.ret.source # "opening_book"
              /\ call.ret.message = EnginePathMessage(call)

\* a raising lookup followed by a complete engine analysis
C9_Witness ==
    /\ BookMiss
    /\ call.book_moves.raises
    /\ call.pc = "done"
    /\ call.ret.message = "Advanced analysis complete"
    /\ call.ret.suggested_move # NoMove

\* --------------------------------------------------------------------- C10
\* a book move returned for the three entries of weights 10, 5, 1 at ELO 2100
BookHit2100 ==
    /\ call.pc = "done"
    /\ call.ret.source = "opening_book"
    /\ call.book_moves = Lookup(ThreeEntries)
    /\ call.elo = 2100

WeightOf(entries, move) == entries[CHOOSE i \in 1..Len(entries) : entries[i].move = move].weight

\* C10, as stated: the selected move is the entry of weight 10 or the entry of
\* weight 5, never the entry of weight 1
C10_NeverWeightOne ==
    BookHit2100 => WeightOf(ThreeEntries, call.ret.suggested_move) \in {10, 5}

\* C10, amended: the selected move is the move of one of the three entries,
\* the entry of weight 1 included (the three highest weights are all three),
\* and it is the best move of the result
C10_AmongThreeEntries ==
    BookHit2100 =>
        /\ call.ret.suggested_move \in {ThreeEntries[i].move : i \in 1..Len(ThreeEntries)}
        /\ call.ret.best_move = call.ret.suggested_move

\* the entry of weight 1 selected
C10_Witness ==
    /\ BookHit2100
    /\ call.ret.suggested_move = "m3"
    /\ WeightOf(ThreeEntries, call.ret.suggested_move) = 1

\* --------------------------------------------------------------------- C11
\* the selector called at the starting position with the three lines of
\* scores +50, +10, -120 (accuracies 100, 96, 83) and ELO 2500
C11Case ==
    /\ call.pc = "selected"
    /\ call.move_analyses = classified(ThreeLines)
    /\ call.board = StartBoard
    /\ call.elo = 2500

\* C11, as stated: the selector returns the rank-1 move for every draw
C11_AlwaysRankOne == C11Case => call.suggested_move = "m1"

\* C11, amended: with a draw r > 0.3 the selector returns a pick among the
\* excellent moves, rank 1 or rank 2; with 0 < r <= 0.3 the good move, rank 3;
\* with r = 0 the first move of the list
C11_ByDraw ==
    C11Case =>
        call.suggested_move =
            IF call.random_value = 0 THEN "m1"
            ELSE IF 10 * call.random_value > 3 * RDen THEN choice(<<"m1", "m2">>, call.pick)
            ELSE "m3"

\* the rank-3 move, a mistake by its label, returned at ELO 2500
C11_Witness ==
    /\ C11Case
    /\ call.random_value > 0 /\ 10 * call.random_value <= 3 * RDen
    /\ call.suggested_move = "m3"
    /\ call.move_analyses[3].mistake

Classified == call.pc = "classified"

Candidates == 1..Len(call.move_analyses)

\* the candidates with a numeric score
Numeric == {i \in Candidates : has_cp(call.move_analyses[i].score)}

\* best_cp - move_cp of candidate i, in white-perspective centipawns
cp_loss_of(i) ==
    (IF has_cp(call.best_score) THEN white_cp(call.best_score) ELSE 0)
    - white_cp(call.move_analyses[i].score)

flag_count(m) ==
    (IF m.blunder THEN 1 ELSE 0) + (IF m.mistake THEN 1 ELSE 0) + (IF m.inaccuracy THEN 1 ELSE 0)

\* blunder > mistake > inaccuracy > none
severity(m) == IF m.blunder THEN 3 ELSE IF m.mistake THEN 2 ELSE IF m.inaccuracy THEN 1 ELSE 0

\* C13: after classification at most one of the flags blunder, mistake,
\* inaccuracy is set on a candidate
C13_OneLabel ==
    Classified => \A i \in Candidates : flag_count(call.move_analyses[i]) <= 1

\* a blunder and a mistake in one list
C13_Witness ==
    /\ Classified
    /\ Len(call.move_analyses) = 2
    /\ call.move_analyses[1].blunder /\ cp_loss_of(1) >= 300
    /\ call.move_analyses[2].mistake /\ ~call.move_analyses[2].blunder

\* C14: every classified move's accuracy lies in [0, 100] (tenths of a
\* percent: 0..1000)
C14_AccuracyRange ==
    Classified =>
        \A i \in Candidates :
            call.move_analyses[i].accuracy >= 0 /\ call.move_analyses[i].accuracy <= 1000

\* a candidate more than 1000 centipawns from the best score, and a mate score
C14_Witness ==
    /\ Classified
    /\ Len(call.move_analyses) = 2
    /\ 1 \in Numeric /\ Abs(cp_loss_of(1)) > 1000 /\ call.move_analyses[1].accuracy = 0
    /\ call.move_analyses[2].score.kind = "mate" /\ call.move_analyses[2].accuracy = 0

\* C15: among the candidates with numeric scores, a loss at least as large
\* carries a label at least as severe
C15_CascadeMonotone ==
    Classified =>
        \A i, j \in Numeric :
            cp_loss_of(i) >= cp_loss_of(j) =>
                severity(call.move_analyses[i]) >= severity(call.move_analyses[j])

\* a negative loss without a label next to a labelled positive one
C15_Witness ==
    /\ Classified
    /\ Numeric = {1, 2}
    /\ cp_loss_of(1) <= -150 /\ severity(call.move_analyses[1]) = 0
    /\ cp_loss_of(2) >= 50 /\ severity(call.move_analyses[2]) >= 1

\* C16, as stated: among the candidates with numeric scores, a signed loss at
\* least as large carries an accuracy at most as large
C16_MonotoneInLoss ==
    Classified =>
        \A i, j \in Numeric :
            cp_loss_of(i) >= cp_loss_of(j) =>
                call.move_analyses[i].accuracy <= call.move_analyses[j].accuracy

\* C16, amended: once classified against a best score, a loss at least as
\* large in absolute value carries an accuracy at most as large
C16_MonotoneInAbsLoss ==
    (Classified /\ call.best_score # NoScore) =>
        \A i, j \in Numeric :
            Abs(cp_loss_of(i)) >= Abs(cp_loss_of(j)) =>
                call.move_analyses[i].accuracy <= call.move_analyses[j].accuracy

\* the larger signed loss with the larger accuracy: loss 0 next to a negative loss
C16_Witness ==
    /\ Classified /\ call.best_score # NoScore
    /\ Numeric = {1, 2}
    /\ cp_loss_of(1) = 0 /\ cp_loss_of(2) < 0
    /\ call.move_analyses[1].accuracy > call.move_analyses[2].accuracy

\* ---------------------------------------------------------------------- C17
\* C17: after any sequence of set_personality calls the profile has exactly
\* the five traits and each value lies in [0, 1] (in percent: 0..100)
C17_ProfileInRange ==
    /\ DOMAIN personality_traits = Traits
    /\ \A t \in Traits : personality_traits[t] >= 0 /\ personality_traits[t] <= 100

\* calls have written a value given below 0 and a value given above 1: among
\* the values of TraitMaps only -50 is stored as 0 and only 150 as 100
C17_Witness ==
    /\ personality_traits["aggression"] = 0
    /\ personality_traits["endgame_skill"] = 100
    /\ personality_traits["positional_play"] = 30

\* ---------------------------------------------------------------------- C18
\* material of the pieces of a detect_game_phase call: Q=9, R=5, B=N=3, P=1
PhaseMaterial ==
    9 * call.census.queen + 5 * call.census.rook + 3 * call.census.bishop
    + 3 * call.census.knight + call.census.pawn

PhasePieces ==
    call.census.queen + call.census.rook + call.census.bishop + call.census.knight
    + call.census.pawn + call.census.king

PhaseFullmove == (call.board.ply \div 2) + 1

\* C18: detect_game_phase returns OPENING if fullmove <= 12 and material >= 60,
\* otherwise ENDGAME if material <= 20 or piece count <= 12, otherwise MIDDLEGAME
C18_PhaseFunction ==
    call.pc = "phase" =>
        call.game_phase =
            IF PhaseFullmove <= 12 /\ PhaseMaterial >= 60 THEN "opening"
            ELSE IF PhaseMaterial <= 20 \/ PhasePieces <= 12 THEN "endgame"
            ELSE "middlegame"

\* fullmove 12, material 63 on nine pieces: OPENING although the piece count
\* meets the ENDGAME test
C18_Witness ==
    /\ call.pc = "phase"
    /\ PhaseFullmove = 12 /\ PhaseMaterial >= 60 /\ PhasePieces <= 12
    /\ call.game_phase = "opening"

\* ---------------------------------------------------------------------- C19
\* C19: in every engine-sourced result the k-th element of move_analyses has
\* rank k
C19_DenseRanks ==
    (call.pc = "done" /\ call.ret.source = "engine_analysis") =>
        \A k \in 1..Len(call.ret.move_analyses) : call.ret.move_analyses[k].rank = k

\* ---------------------------------------------------------------------- C20
\* C20: in a session whose engine failed to start no analysis is ever
\* dispatched: no worker is started, no call is entered, no signal is queued,
\* the GUI thread never waits in a hints request (it is idle until the
\* window closes), and suggest_move has only ever answered "Engine not available"
C20_NoEngineNoDispatch ==
    gui_engine = "None" =>
        /\ analysis_worker = "None"
        /\ call = NoCall
        /\ signals = <<>>
        /\ gui_pc \in {"idle", "closed"}
        /\ last_analysis = NoResult
        /\ suggest_ret \in {"None", "Engine not available"}

\* suggest_move was requested in such a session, after a move on the board
C20_Witness ==
    /\ gui_engine = "None" /\ engine = "None"
    /\ suggest_ret = "Engine not available"
    /\ current_board # StartBoard
    /\ analysis_worker = "None"

\* ---------------------------------------------------------------------- C21
\* a _advanced_move_selection call on a non-empty list has returned
Selected == call.pc = "selected" /\ call.move_analyses # <<>>

\* the candidates with lo <= accuracy < hi, in tenths of a percent
Bucket(lo, hi) ==
    {i \in 1..Len(call.move_analyses) :
        lo <= call.move_analyses[i].accuracy /\ call.move_analyses[i].accuracy < hi}

\* the draw r against mistakeProb / d, with mistakeProb = base * (1 - strength)
\* and base 0.10, 0.20, 0.15 by phase
DrawAboveMistake(d) ==
    LET phase == detect_game_phase(call.board)
        base == IF phase = "opening" THEN 10 ELSE IF phase = "middlegame" THEN 20 ELSE 15
        weak == 1700 - Max(0, Min(1700, call.elo - 800))
    IN d * call.random_value * 100 * 1700 > base * weak * RDen

\* the bucket the policy selects, or the first candidate when none matched
SelectedBucket ==
    LET excellent == Bucket(950, 1001)
        good == Bucket(800, 950)
        okay == Bucket(600, 800)
        poor == Bucket(0, 600)
    IN IF DrawAboveMistake(1)
       THEN IF excellent # {} /\ 10 * call.random_value > 3 * RDen THEN excellent
            ELSE IF good # {} THEN good
            ELSE IF okay # {} THEN okay
            ELSE {1}
       ELSE IF okay # {} /\ DrawAboveMistake(2) THEN okay
            ELSE IF poor # {} THEN poor
            ELSE {1}

\* C21: the move the selector returns is the move of a member of the bucket
\* that the bucket policy selects for the draw, or of the first candidate
\* when no bucket matched
C21_BucketPolicy ==
    Selected => \E i \in SelectedBucket : call.suggested_move = call.move_analyses[i].move

\* a draw in (mistakeProb / 2, mistakeProb] with okay and poor candidates:
\* the okay one is returned
C21_Witness ==
    /\ Selected
    /\ ~DrawAboveMistake(1) /\ DrawAboveMistake(2)
    /\ Bucket(600, 800) # {} /\ Bucket(0, 600) # {}
    /\ \E i \in Bucket(600, 800) : call.suggested_move = call.move_analyses[i].move

\* ---------------------------------------------------------------------- C22
\* the label of a classified move
label(m) ==
    IF m.blunder THEN "blunder" ELSE IF m.mistake THEN "mistake"
    ELSE IF m.inaccuracy THEN "inaccuracy" ELSE "none"

\* C22: a candidate with a numeric score, classified against a best score,
\* is a blunder iff its loss is >= 300, a mistake iff 150 <= loss < 300, an
\* inaccuracy iff 50 <= loss < 150 and carries no label iff loss < 50; the
\* scores +50, +10, -120 get the labels none, none, mistake
C22_Thresholds ==
    /\ (Classified /\ call.best_score # NoScore) =>
          \A i \in Numeric :
              /\ call.move_analyses[i].blunder <=> cp_loss_of(i) >= 300
              /\ call.move_analyses[i].mistake <=> (150 <= cp_loss_of(i) /\ cp_loss_of(i) < 300)
              /\ call.move_analyses[i].inaccuracy <=> (50 <= cp_loss_of(i) /\ cp_loss_of(i) < 150)
              /\ flag_count(call.move_analyses[i]) = 0 <=> cp_loss_of(i) < 50
    /\ (call.pc = "selected" /\ Len(call.move_analyses) = 3
          /\ \A i \in 1..3 : call.move_analyses[i].score = ThreeLines[i].score) =>
          \A i \in 1..3 : label(call.move_analyses[i]) = <<"none", "none", "mistake">>[i]

\* losses of exactly 300 and of 299: a blunder and a mistake
C22_Witness ==
    /\ Classified /\ call.best_score # NoScore
    /\ Numeric = {1, 2}
    /\ cp_loss_of(1) = 300 /\ label(call.move_analyses[1]) = "blunder"
    /\ cp_loss_of(2) = 299 /\ label(call.move_analyses[2]) = "mistake"

\* ---------------------------------------------------------------------- C23
\* the book path has returned a move
BookHit == call.pc = "done" /\ call.ret.source = "opening_book"

\* the entries of the lookup whose move was returned
ReturnedEntries ==
    {i \in 1..Len(call.book_moves.entries) :
        call.book_moves.entries[i].move = call.ret.suggested_move}

\* the number of entries of the lookup that outweigh entry i
Outweighing(i) ==
    Cardinality({j \in 1..Len(call.book_moves.entries) :
                    call.book_moves.entries[j].weight > call.book_moves.entries[i].weight})

\* C23: a move returned by the book path is the move of an entry of the
\* lookup; at ELO >= 2000 fewer than three entries outweigh it
C23_BookPolicy ==
    BookHit =>
        \E i \in ReturnedEntries : call.elo >= 2000 => Outweighing(i) < 3

\* below ELO 2000 the entry that three others outweigh is returned
C23_Witness ==
    /\ BookHit
    /\ call.elo < 2000
    /\ call.book_moves = Lookup(FourEntries)
    /\ \E i \in ReturnedEntries : Outweighing(i) = 3

\* ---------------------------------------------------------------------- C24
\* the candidates of the frame whose score is a mate score
MateScored == {i \in 1..Len(call.move_analyses) : call.move_analyses[i].score.kind = "mate"}

\* C24: a candidate with a mate score leaves the classifier with accuracy 0
\* and no flag, whatever the best score, and is in the selector's poor bucket
C24_MateNotCompared ==
    /\ Classified =>
          \A i \in MateScored :
              call.move_analyses[i].accuracy = 0 /\ flag_count(call.move_analyses[i]) = 0
    /\ call.pc = "selected" =>
          \A i \in MateScored :
              /\ call.move_analyses[i].accuracy = 0 /\ flag_count(call.move_analyses[i]) = 0
              /\ i \in Bucket(0, 600)

\* the first line, a mate in one, is returned as the pick among the poor moves
C24_Witness ==
    /\ Selected
    /\ 1 \in MateScored
    /\ ~DrawAboveMistake(1)
    /\ SelectedBucket = {1}
    /\ Bucket(0, 600) = {1}
    /\ call.suggested_move = call.move_analyses[1].move

\* ---------------------------------------------------------------------- C25
\* C25: the book is requested only with a book loaded and in the OPENING
\* phase, and only as the first request of the call; a book hit returns the
\* book move as suggested and best move after that one request; the engine is
\* requested after a miss, or first when no book is loaded or the phase is
\* not OPENING
C25_BookBeforeEngine ==
    /\ \A k \in 1..Len(call.requests) :
          call.requests[k] = "find_all" =>
              /\ k = 1
              /\ opening_book # "None"
              /\ detect_game_phase(call.board) = "opening"
    /\ BookHit =>
          /\ call.requests = <<"find_all">>
          /\ call.ret.best_move = call.ret.suggested_move
          /\ ReturnedEntries # {}
    /\ (call.requests # <<>> /\ call.requests[1] = "analyse") =>
          (opening_book = "None" \/ detect_game_phase(call.board) # "opening")
    /\ (Len(call.requests) >= 2 /\ call.requests[1] = "find_all") => BookMiss

\* a hit: the call is done after the book request alone
C25_Witness ==
    /\ BookHit
    /\ call.requests = <<"find_all">>
    /\ call.ret.suggested_move = "m2"
    /\ detect_game_phase(call.board) = "opening"

\* ---------------------------------------------------------------------- C26
\* profiles with each trait at 0, 0.5 or 1
AnyProfiles == [Traits -> {0, 50, 100}]

C27_BestIsFirstCandidate ==
    (call.pc = "done" /\ call.ret.suggested_move # NoMove) =>
        /\ call.ret.best_move # NoMove
        /\ call.ret.source = "engine_analysis" =>
              /\ call.ret.best_move = call.ret.move_analyses[1].move
              /\ call.ret.evaluation = call.ret.move_analyses[1].score

\* ---------------------------------------------------------------------- C28
\* make_bot_move pushes the stored suggestion on the board
BotMovePlayed == MakeBotMove /\ current_board' # current_board

C29_ExcellentUnflagged ==
    Classified =>
        \A i \in Candidates :
            call.move_analyses[i].accuracy >= 950 => flag_count(call.move_analyses[i]) = 0

\* ---------------------------------------------------------------------- C30
\* C30: after a check_move call that reached the comparison, accuracy is the
\* sum of the correct counts over the sum of the total counts, moves_practiced
\* is the number of such calls, and correct <= total for each opening
C30_StatsConsistent ==
    (trainer.ret.op = "check_move" /\ trainer.ret.compared) =>
        LET names == DOMAIN trainer.opening_scores
            correct == sum_scores(trainer.opening_scores, names, "correct")
            total == sum_scores(trainer.opening_scores, names, "total")
        IN /\ trainer.accuracy.num * total = correct * trainer.accuracy.den
           /\ trainer.moves_practiced = total
           /\ \A name \in names :
                 trainer.opening_scores[name].correct <= trainer.opening_scores[name].total

====
